---- MODULE Spec2Model ----
(***************************************************************************)
(* State-machine model of the Redeban portal automation scripts.           *)
(*                                                                         *)
(* One run of one entry point is modelled per behaviour.  The entry point  *)
(* (prog) and the static configuration (config) are chosen in Init; the    *)
(* answers of the environment (portal pages, probe outcome, S3 sink,       *)
(* Chrome subprocess results) are chosen by \E in the step that awaits     *)
(* them.                                                                   *)
(*                                                                         *)
(*   uploadFile               src/src/redeban.js                           *)
(*   runHybridAutomation      src/src/redeban-hybrid.js                    *)
(*   runComprehensiveSolution src/unnamed/part_003 (dual Chrome test)      *)
(*   runComprehensiveSolution src/src/redeban-final-solution.js            *)
(*   runRedebanAutomation     src/unnamed/part_006 (Puppeteer driver)      *)
(***************************************************************************)
EXTENDS Integers, Sequences, FiniteSets, TLC

VARIABLES
    prog,               \* entry point that is running
    pc,                 \* position of the run inside its entry point
    config,             \* modules/config.js: proxy settings read from the environment
    events,             \* run-status events accepted by the metadata sink, in order
    sinkFailed,         \* some writeMetadataToS3 call has thrown in this run
    store,              \* objects held at redeban/<processUUID>/metadata.json
    open,               \* browser-side resources currently open
    probe,              \* what the connectivity probe observed
    connectivityResult, \* object returned by checkNetworkConnectivity
    context,            \* session context / page built for the run
    page,               \* what the portal page shows
    loginResult,        \* object returned by login()
    error,              \* message of the exception being propagated
    otpSubmits,         \* number of times an OTP was sent to the portal
    otpAccepted,        \* the portal accepted a submitted OTP
    steps,              \* workflow milestones reached, in order
    attempts,           \* engine attempts made by a fallback chain, in order
    workingMethod,      \* engine selected by the chain ("none" when none)
    chainResult,        \* result object handed downstream by the chain
    probes,             \* number of connectivity probes performed in this run
    otpWaits,           \* number of OTP waits started in this run
    profiles,           \* contexts returned by createOptimalBrowserContext calls, in order
    timeoutMs,          \* argument of the OTP wait under way
    elapsedTime,        \* waitForOTPFromWebSocket: elapsedTime
    polls,              \* waitForOTPFromWebSocket: runs of checkForOTPFile so far
    tmp,                \* files at the fixed paths under /tmp
    runs,               \* state of each of two runs executing concurrently
    retry,              \* state of one call of retryWithBackoff
    detok,              \* state of one call of waitForDetokenizedFile
    writer,             \* position of the command center writing the OTP file
    readBuf,            \* length of what the poller's readFile returned
    otp                 \* how the OTP wait settled ("pending" while it has not)

vars == << prog, pc, config, events, sinkFailed, store, open, probe, connectivityResult,
           context, page, loginResult, error, otpSubmits, otpAccepted, steps,
           attempts, workingMethod, chainResult, probes, otpWaits, profiles,
           timeoutMs, elapsedTime, polls, otp, tmp, runs, retry, detok,
           writer, readBuf >>

runVars    == << prog, config >>
sinkVars   == << events, sinkFailed, store >>
netVars    == << probe, connectivityResult, context >>
loginVars  == << page, loginResult, otpSubmits, otpAccepted >>
chainVars  == << attempts, workingMethod, chainResult >>
countVars  == << probes, otpWaits >>
waitVars   == << timeoutMs, elapsedTime, polls, otp >>
fsVars     == << tmp, runs >>
callVars   == << retry, detok >>
handoffVars == << writer, readBuf >>

-----------------------------------------------------------------------------
(* Static data *)

Programs == { "uploadFile", "uploadFileProxy", "hybrid", "dualChrome", "finalSolution",
              "puppeteer", "contextBuilder", "otpWebSocket", "otpConsole",
              "twoWaits", "twoChromes", "retryWithBackoff", "waitForDetokenizedFile",
              "otpHandoff" }

\* Functions exercised on their own, with arguments drawn in Init, rather
\* than through an entry point.
Harnesses == { "contextBuilder", "otpWebSocket", "otpConsole", "twoWaits", "twoChromes",
               "retryWithBackoff", "waitForDetokenizedFile", "otpHandoff" }

\* Values of maxAttempts waitForDetokenizedFile is called with.
MaxAttempts == 3

\* Objects a listing of the UUID directory can hold, by what the filters of
\* waitForDetokenizedFile look at: '@redeban' in the key, the prefix
\* 'processed-file.', 'input-file.' in the key, a .csv/.txt ending; plus
\* LastModified.
ListedFiles ==
    { [ key |-> "uuid/processed-file.csv", redeban |-> FALSE, processed |-> TRUE,
        input |-> FALSE, csvOrTxt |-> TRUE, lastModified |-> 4 ],
      [ key |-> "uuid/input-file@redeban.csv", redeban |-> TRUE, processed |-> FALSE,
        input |-> TRUE, csvOrTxt |-> TRUE, lastModified |-> 3 ],
      [ key |-> "uuid/out@redeban.csv", redeban |-> TRUE, processed |-> FALSE,
        input |-> FALSE, csvOrTxt |-> TRUE, lastModified |-> 2 ],
      [ key |-> "uuid/input-file@redeban.pdf", redeban |-> TRUE, processed |-> FALSE,
        input |-> TRUE, csvOrTxt |-> FALSE, lastModified |-> 1 ] }

\* What HeadObject and ListObjectsV2 can answer in one iteration.
HeadAnswers == { "found", "NotFound", "AccessDenied" }
ListAnswers == [ threw : { TRUE }, contents : { { } } ]
               \cup [ threw : { FALSE }, contents : SUBSET ListedFiles ]

NewDetok(maxAttempts) ==
    [ maxAttempts |-> maxAttempts, attempts |-> 0, iterations |-> 0,
      outcome |-> "pending", key |-> "none" ]

\* Arguments retryWithBackoff is called with, and the errors fn can throw.
MaxRetries == 3
BaseDelays == { 500, 1000 }
FnErrors == { "ETIMEDOUT", "ECONNRESET" }

\* One call of retryWithBackoff: its arguments, the loop variable i, the
\* errors the invocations of fn threw, the sleeps made, and how it settled.
NewRetry(maxRetries, baseDelay) ==
    [ maxRetries |-> maxRetries, baseDelay |-> baseDelay, i |-> 0, calls |-> 0,
      errors |-> << >>, delays |-> << >>, outcome |-> "pending", thrown |-> "none" ]

\* Two runs of the same entry point executing at the same time on one host.
RunIds == { "A", "B" }

\* navigation.js:74 and redeban-hybrid.js:130: paths every run uses.
OtpFilePath == "/tmp/otp-input.txt"
ChromeDirectScreenshotPath == "/tmp/chrome-screenshot.png"
\* part_003:377, 400 and redeban-final-solution.js:157
DualSimplePath == "/tmp/chrome-simple.png"
DualStealthPath == "/tmp/chrome-stealth.png"
StealthStartPath == "/tmp/stealth-start.png"
Paths == { OtpFilePath, ChromeDirectScreenshotPath, DualSimplePath, DualStealthPath,
           StealthStartPath }

\* The --screenshot paths of the Chrome subprocesses an entry point spawns
\* for its engine attempts.
ScreenshotPaths(program) ==
    CASE program = "hybrid"        -> { ChromeDirectScreenshotPath }
      [] program = "dualChrome"    -> { DualSimplePath, DualStealthPath }
      [] program = "finalSolution" -> { StealthStartPath }
      [] OTHER                     -> { }

\* A file: whether it exists, the run whose data it holds, and its length.
NoFile == [ exists |-> FALSE, owner |-> "none", size |-> 0 ]

\* navigation.js:106: /^\d{6}$/
OtpLength == 6

\* A screenshot of the given size written by the subprocess of the attempt
\* under way.
Written(size) == [ exists |-> TRUE, owner |-> "current", size |-> size ]

NoRun == [ pc |-> "started", elapsedTime |-> 0, deposited |-> FALSE, otp |-> "none",
           exitCode |-> 0, success |-> FALSE, evidence |-> "none" ]

\* navigation.js:75: checkInterval, in milliseconds.
CheckInterval == 1000

\* Values of timeoutMs the OTP waits are started with.
MaxTimeoutMs == 3000
TimeoutValues == { 1, CheckInterval - 1, CheckInterval, CheckInterval + 1,
                   2 * CheckInterval, MaxTimeoutMs }

\* What checkForOTPFile finds at /tmp/otp-input.txt: no file, a file that
\* cannot be read, content that is not six digits, or a six-digit OTP.
OtpFileStates == { "absent", "unreadable", "invalid", "valid" }

\* The two versions of uploadFile (redeban.js and part_004); they share
\* login() and the upload steps of the try block.
Drivers == { "uploadFile", "uploadFileProxy" }

\* config.js:37-40: host and port have defaults, the credentials come from
\* the environment and are undefined when the variables are unset.
ProxyHost == "pr.oxylabs.io"
ProxyPort == "7777"
Undefined == "undefined"
Configs ==
    [ proxyHost     : { ProxyHost },
      proxyPort     : { ProxyPort },
      proxyUsername : { Undefined, "customer-user" },
      proxyPassword : { Undefined, "secret" } ]

\* Messages of the errors a probe navigation can be rejected with.
ProbeErrors ==
    { "page.goto: Timeout 15000ms exceeded.",
      "net::ERR_TIMED_OUT",
      "net::ERR_NAME_NOT_RESOLVED",
      "net::ERR_CONNECTION_REFUSED",
      "net::ERR_CERT_AUTHORITY_INVALID" }

HttpOK        == 200
HttpForbidden == 403
StatusCodes   == { HttpOK, HttpForbidden, 500 }

\* What one probe navigation can observe: a response (status code and
\* whether the title carries 'Pagos Recurrentes') or a rejected navigation.
ProbeOutcomes ==
    [ threw : { FALSE }, statusCode : StatusCodes, marker : BOOLEAN, message : { "none" } ]
    \cup
    [ threw : { TRUE }, statusCode : { 0 }, marker : { FALSE }, message : ProbeErrors ]

NoProbe   == [ threw |-> FALSE, statusCode |-> 0, marker |-> FALSE, message |-> "unset" ]
NoResult  == [ defined |-> FALSE, useProxy |-> FALSE, statusCode |-> 0,
               error |-> "none", forceDirectConnection |-> FALSE ]
NoContext == [ defined |-> FALSE, proxy |-> FALSE, server |-> << >>,
               username |-> "none", password |-> "none", acceptLanguage |-> "none" ]
NoLogin   == [ defined |-> FALSE, success |-> FALSE, error |-> "none" ]
NoChain   == [ defined |-> FALSE, success |-> FALSE, method |-> "none", screenshotSize |-> 0 ]

\* Size a Chrome screenshot must exceed to count as a loaded page.
DualChromeThreshold  == 15000
StealthThreshold     == 50000

\* Sizes of the screenshot file a Chrome subprocess leaves behind; 0 stands
\* for no file created.
ScreenshotSizes ==
    { 0, 4096, DualChromeThreshold, DualChromeThreshold + 1,
      StealthThreshold, StealthThreshold + 1 }

\* A screenshot left at its path by an earlier run on the same host.
StaleFile == [ exists |-> TRUE, owner |-> "earlier", size |-> StealthThreshold + 1 ]

-----------------------------------------------------------------------------
(* modules/s3Service (part_007) *)

\* S3 PutObject on one key: the body becomes the object at the key, in
\* place of the object that was there.
PutObject(objects, body) == << body >>

\* writeMetadataToS3: one PutObject on the key redeban/<processUUID>/metadata.json;
\* when s3.send rejects, the error is logged and rethrown and nothing is stored.
writeMetadataToS3(status, err, step, ok) ==
    /\ store' = IF ok
                  THEN PutObject(store, [ status |-> status, error |-> err, step |-> step ])
                  ELSE store
    /\ events' = IF ok
                   THEN Append(events, [ status |-> status, error |-> err, step |-> step ])
                   ELSE events
    /\ sinkFailed' = (sinkFailed \/ ~ok)

S3Error == "S3 PutObject failed"

-----------------------------------------------------------------------------
(* modules/utils.js *)

\* String.prototype.toLowerCase on the messages the model uses.
toLowerCase(s) ==
    CASE s = "page.goto: Timeout 15000ms exceeded."  -> "page.goto: timeout 15000ms exceeded."
      [] s = "net::ERR_TIMED_OUT"                    -> "net::err_timed_out"
      [] s = "net::ERR_NAME_NOT_RESOLVED"            -> "net::err_name_not_resolved"
      [] s = "net::ERR_CONNECTION_REFUSED"           -> "net::err_connection_refused"
      [] s = "net::ERR_CERT_AUTHORITY_INVALID"       -> "net::err_cert_authority_invalid"
      [] s = "Credenciales incorrectas"              -> "credenciales incorrectas"
      [] s = "Codigo invalido o expirado"            -> "codigo invalido o expirado"
      [] OTHER                                       -> s

\* String.prototype.includes on the (haystack, needle) pairs the code evaluates.
includes(hay, needle) ==
    \/ hay = needle
    \/ hay = "page.goto: timeout 15000ms exceeded." /\ needle = "timeout"
    \/ hay = "Codigo invalido o expirado" /\ needle = "Codigo invalido"

parsePlaywrightError(message) ==
    LET m == toLowerCase(message) IN
    IF includes(m, "timeout") THEN
        [ type |-> "timeout", message |-> "Timeout esperando elemento o navegacion" ]
    ELSE IF includes(m, "net::err_timed_out") THEN
        [ type |-> "network", message |-> "Error de conexion - timeout de red" ]
    ELSE IF includes(m, "403") \/ includes(m, "forbidden") THEN
        [ type |-> "access", message |-> "Acceso prohibido - verificar proxy/IP" ]
    ELSE IF includes(m, "selector") THEN
        [ type |-> "selector", message |-> "Elemento no encontrado en la pagina" ]
    ELSE
        [ type |-> "general", message |-> message ]

\* Variant of checkNetworkConnectivity that asks for the proxy whatever the
\* probe observed.
checkNetworkConnectivity_alwaysProxy(o) ==
    [ defined |-> TRUE, useProxy |-> TRUE, statusCode |-> o.statusCode,
      error |-> "none", forceDirectConnection |-> FALSE ]

\* checkNetworkConnectivity (utils.js): the object returned for a probe outcome.
checkNetworkConnectivity(o) ==
    IF ~o.threw THEN
        IF o.statusCode = HttpOK /\ o.marker THEN
            [ defined |-> TRUE, useProxy |-> FALSE, statusCode |-> o.statusCode,
              error |-> "none", forceDirectConnection |-> FALSE ]
        ELSE IF o.statusCode = HttpForbidden THEN
            [ defined |-> TRUE, useProxy |-> TRUE, statusCode |-> o.statusCode,
              error |-> "none", forceDirectConnection |-> FALSE ]
        ELSE
            [ defined |-> TRUE, useProxy |-> TRUE, statusCode |-> o.statusCode,
              error |-> "none", forceDirectConnection |-> FALSE ]
    ELSE
        [ defined |-> TRUE, useProxy |-> FALSE, statusCode |-> 0,
          error |-> parsePlaywrightError(o.message).message,
          forceDirectConnection |-> TRUE ]

\* createOptimalBrowserContext (utils.js): the options handed to
\* browser.newContext, or threw when the proxy branch evaluates
\* config.proxyUsername.substring(0, 30) on an undefined user name.
createOptimalBrowserContext(cfg, conn) ==
    IF conn.useProxy THEN
        IF cfg.proxyUsername = Undefined THEN
            [ threw |-> TRUE, options |-> NoContext ]
        ELSE
            [ threw |-> FALSE,
              options |-> [ defined |-> TRUE, proxy |-> TRUE,
                            server |-> << cfg.proxyHost, cfg.proxyPort >>,
                            username |-> cfg.proxyUsername,
                            password |-> cfg.proxyPassword,
                            acceptLanguage |-> "es-CO,es;q=0.9,en;q=0.8" ] ]
    ELSE
        [ threw |-> FALSE,
          options |-> [ defined |-> TRUE, proxy |-> FALSE, server |-> << >>,
                        username |-> "none", password |-> "none",
                        acceptLanguage |-> "es-ES,es;q=0.9,en;q=0.8" ] ]

-----------------------------------------------------------------------------
(* modules/navigation.js *)

\* Pages the portal can show after the credentials were submitted and after
\* an OTP was submitted.
PostLoginPages == { "credRejected", "otp", "dashboard", "login" }
PostOtpPages   == { "otpInvalid", "dashboard", "otp" }

\* The message the page content carries, if any.
Html(pg) ==
    CASE pg = "credRejected" -> "Credenciales incorrectas"
      [] pg = "otpInvalid"   -> "Codigo invalido o expirado"
      [] OTHER               -> "none"

\* checkLoginSuccess: title or URL carries a dashboard/home indicator.
checkLoginSuccess(pg) ==
    IF pg = "dashboard"
      THEN [ defined |-> TRUE, success |-> TRUE, error |-> "none" ]
      ELSE [ defined |-> TRUE, success |-> FALSE, error |-> "Estado de login incierto" ]

\* checkCredentialErrors: the lower-cased text is searched for the
\* capitalised needle 'Credenciales incorrectas'.
checkCredentialErrors(pg) ==
    IF includes(toLowerCase(Html(pg)), "Credenciales incorrectas")
      THEN "Credenciales incorrectas"
      ELSE "none"

\* Variant of checkOTPResult that does not look for the invalid-OTP feedback.
checkOTPResult_ignoresFeedback(pg) == checkLoginSuccess(pg)

\* checkOTPResult: invalid-OTP feedback on the page, else checkLoginSuccess.
checkOTPResult(pg) ==
    IF \/ includes(Html(pg), "Codigo invalido")
       \/ includes(Html(pg), "Codigo invalido o expirado")
      THEN [ defined |-> TRUE, success |-> FALSE, error |-> "OTP invalido o expirado" ]
      ELSE checkLoginSuccess(pg)

\* handleOTPFlow, selector scan: the OTP page has the field; on any other
\* page the catch-all selector input[type="text"] may or may not match.
otpFieldFound(pg) == IF pg = "otp" THEN { TRUE } ELSE BOOLEAN

\* Arguments createOptimalBrowserContext can be called with: a result of
\* checkNetworkConnectivity, or none (connectivityResult = null, the default).
SelectorInputs == { NoResult } \cup { checkNetworkConnectivity(o) : o \in ProbeOutcomes }

-----------------------------------------------------------------------------
Init ==
    /\ prog \in Programs
    /\ pc = "started"
    /\ config \in Configs
    /\ events = << >>
    /\ sinkFailed = FALSE
    /\ store = << >>
    /\ open = { }
    /\ probe = NoProbe
    /\ connectivityResult \in IF prog = "contextBuilder" THEN SelectorInputs
                                                        ELSE { NoResult }
    /\ context = NoContext
    /\ page = "blank"
    /\ loginResult = NoLogin
    /\ error = "none"
    /\ otpSubmits = 0
    /\ otpAccepted = FALSE
    /\ steps = << >>
    /\ attempts = << >>
    /\ workingMethod = "none"
    /\ chainResult = NoChain
    /\ probes = 0
    /\ otpWaits = 0
    /\ profiles = << >>
    /\ timeoutMs \in CASE prog \in { "otpWebSocket", "otpConsole" } -> TimeoutValues
                     [] prog \in { "twoWaits", "otpHandoff" } -> { 2 * CheckInterval }
                     [] OTHER -> { 0 }
    /\ tmp \in { f \in [ Paths -> { NoFile, StaleFile } ] :
                    \A p \in Paths \ ScreenshotPaths(prog) : f[p] = NoFile }
    /\ runs = [ r \in RunIds |-> NoRun ]
    /\ writer = "idle"
    /\ readBuf = 0
    /\ retry \in IF prog = "retryWithBackoff"
                   THEN { NewRetry(m, b) : m \in 1..MaxRetries, b \in BaseDelays }
                   ELSE { NewRetry(1, 1000) }
    /\ detok \in IF prog = "waitForDetokenizedFile"
                   THEN { NewDetok(m) : m \in 0..MaxAttempts }
                   ELSE { NewDetok(0) }
    /\ elapsedTime = 0
    /\ polls = 0
    /\ otp = "pending"

-----------------------------------------------------------------------------
(* uploadFile (redeban.js) *)

\* redeban.js:77-82: the 'started' event is written before the try block, so
\* a rejected write rejects uploadFile.
uploadFile_started ==
    /\ prog = "uploadFile" /\ pc = "started"
    /\ \E ok \in BOOLEAN :
          /\ writeMetadataToS3("started", "none", "none", ok)
          /\ pc' = IF ok THEN "launch" ELSE "done"
          /\ error' = IF ok THEN error ELSE S3Error
    /\ UNCHANGED << runVars, open, netVars, loginVars, steps, chainVars >>
    /\ UNCHANGED << countVars, profiles, fsVars, callVars, handoffVars, waitVars >>

\* redeban.js:84-97: chromium.launch, outside the try block.
uploadFile_launch ==
    /\ prog = "uploadFile" /\ pc = "launch"
    /\ \E ok \in BOOLEAN :
          /\ open' = IF ok THEN { "browser" } ELSE open
          /\ pc' = IF ok THEN "probe" ELSE "done"
          /\ error' = IF ok THEN error ELSE "browserType.launch failed"
    /\ UNCHANGED << runVars, sinkVars, netVars, loginVars, steps, chainVars >>
    /\ UNCHANGED << countVars, profiles, fsVars, callVars, handoffVars, waitVars >>

\* redeban.js:99-101 with utils.js:152-200: one probe navigation; the probe
\* context is closed only after a response was received.
uploadFile_probe ==
    /\ prog = "uploadFile" /\ pc = "probe"
    /\ \E o \in ProbeOutcomes :
          /\ probe' = o
          /\ connectivityResult' = checkNetworkConnectivity(o)
          /\ open' = IF o.threw THEN open \cup { "contextDirect" } ELSE open
    /\ steps' = Append(steps, "ConnectivityChecked")
    /\ pc' = "context"
    /\ UNCHANGED << runVars, sinkVars, context, loginVars, error, chainVars >>
    /\ probes' = probes + 1
    /\ UNCHANGED << otpWaits, profiles, fsVars, callVars, handoffVars, waitVars >>

\* redeban.js:103-105 with utils.js:218-288: also outside the try block.
uploadFile_context ==
    /\ prog = "uploadFile" /\ pc = "context"
    /\ LET r == createOptimalBrowserContext(config, connectivityResult) IN
          IF r.threw THEN
              /\ error' = "TypeError: Cannot read properties of undefined"
              /\ pc' = "done"
              /\ UNCHANGED << context, open, steps >>
          ELSE
              \E ok \in BOOLEAN :
                 IF ok THEN
                     /\ context' = r.options
                     /\ open' = open \cup { "context", "page" }
                     /\ steps' = Append(steps, "SessionBuilt")
                     /\ pc' = "login_goto"
                     /\ error' = error
                 ELSE
                     /\ error' = "browser.newContext failed"
                     /\ pc' = "done"
                     /\ UNCHANGED << context, open, steps >>
    /\ UNCHANGED << runVars, sinkVars, probe, connectivityResult, loginVars, chainVars >>
    /\ UNCHANGED << countVars, profiles, fsVars, callVars, handoffVars, waitVars >>

(* login (navigation.js:695-821), called from uploadFile inside its try block *)

\* navigation.js:741-754: navigate to the login page and check its title.
login_goto ==
    /\ prog \in Drivers /\ pc = "login_goto"
    /\ \E r \in { "ok", "threw", "wrongTitle" } :
          /\ page' = IF r = "ok" THEN "login" ELSE page
          /\ error' = CASE r = "ok"         -> error
                        [] r = "threw"      -> "page.goto: Timeout 60000ms exceeded."
                        [] r = "wrongTitle" -> "Pagina de login no encontrada"
          /\ pc' = IF r = "ok" THEN "login_fill" ELSE "login_catch"
    /\ UNCHANGED << runVars, sinkVars, open, netVars, loginResult, otpSubmits,
                    otpAccepted, steps, chainVars >>
    /\ UNCHANGED << countVars, profiles, fsVars, callVars, handoffVars, waitVars >>

\* navigation.js:373-430, 767: fillLoginForm throws when a field cannot be filled.
fillLoginForm ==
    /\ prog \in Drivers /\ pc = "login_fill"
    /\ \E ok \in BOOLEAN :
          /\ error' = IF ok THEN error ELSE "No se pudieron llenar los campos del formulario"
          /\ pc' = IF ok THEN "login_submit" ELSE "login_catch"
    /\ UNCHANGED << runVars, sinkVars, open, netVars, loginVars, steps, chainVars >>
    /\ UNCHANGED << countVars, profiles, fsVars, callVars, handoffVars, waitVars >>

\* navigation.js:432-471, 771-773: the credentials are sent; the portal answers
\* with one of PostLoginPages, or the wait for the answer is rejected.
submitLoginForm ==
    /\ prog \in Drivers /\ pc = "login_submit"
    /\ \/ /\ error' = "No se pudo enviar el formulario"
          /\ pc' = "login_catch"
          /\ UNCHANGED << page, steps >>
       \/ \E pg \in PostLoginPages, settled \in BOOLEAN :
             /\ page' = pg
             /\ steps' = Append(steps, "CredentialsSubmitted")
             /\ error' = IF settled THEN error ELSE "page.waitForLoadState: Timeout exceeded."
             /\ pc' = IF settled THEN "login_cred" ELSE "login_catch"
    /\ UNCHANGED << runVars, sinkVars, open, netVars, loginResult, otpSubmits,
                    otpAccepted, chainVars >>
    /\ UNCHANGED << countVars, profiles, fsVars, callVars, handoffVars, waitVars >>

\* navigation.js:775-791: credential errors are looked for before the OTP flow.
login_credentialCheck ==
    /\ prog \in Drivers /\ pc = "login_cred"
    /\ LET credentialError == checkCredentialErrors(page) IN
          IF credentialError # "none" THEN
              /\ page' = "closed"
              /\ open' = open \ { "page" }
              /\ loginResult' = [ defined |-> TRUE, success |-> FALSE,
                                  error |-> "Credenciales incorrectas: Credenciales incorrectas" ]
              /\ pc' = "login_returned"
          ELSE
              /\ pc' = "otp_detect"
              /\ UNCHANGED << page, open, loginResult >>
    /\ UNCHANGED << runVars, sinkVars, netVars, error, otpSubmits, otpAccepted,
                    steps, chainVars >>
    /\ UNCHANGED << countVars, profiles, fsVars, callVars, handoffVars, waitVars >>

\* navigation.js:473-512: without an OTP field the flow returns
\* checkLoginSuccess(page).
handleOTPFlow_detect ==
    /\ prog \in Drivers /\ pc = "otp_detect"
    /\ \E found \in otpFieldFound(page) :
          IF found THEN
              /\ pc' = "otp_wait"
              /\ UNCHANGED << loginResult, steps >>
          ELSE
              /\ loginResult' = checkLoginSuccess(page)
              /\ steps' = IF checkLoginSuccess(page).success
                            THEN Append(steps, "LoginVerified") ELSE steps
              /\ pc' = "login_returned"
    /\ UNCHANGED << runVars, sinkVars, open, netVars, page, error, otpSubmits,
                    otpAccepted, chainVars >>
    /\ UNCHANGED << countVars, profiles, fsVars, callVars, handoffVars, waitVars >>

\* navigation.js:517-538: how the wait for the OTP ends: resolved with a
\* code, rejected (timeout), or resolved with an empty string.
OtpWaitOutcomes == { "resolved", "rejected", "empty" }

\* Variant of otpUsable that lets an empty OTP through.
otpUsable_emptyPasses(outcome) == outcome # "rejected"

\* navigation.js:531-538: a rejected wait is caught and rethrown, and
\* `if (!otp)` throws on an empty OTP; only a non-empty OTP goes on.
otpUsable(outcome) == outcome = "resolved"

\* navigation.js:516-538: one wait for the OTP; a timeout and an empty OTP throw.
handleOTPFlow_wait ==
    /\ prog \in Drivers /\ pc = "otp_wait"
    /\ \E r \in OtpWaitOutcomes :
          /\ otp' = r
          /\ error' = CASE otpUsable(r)   -> error
                        [] r = "rejected" -> "OTP no proporcionado o timeout alcanzado"
                        [] OTHER          -> "OTP no proporcionado"
          /\ pc' = IF otpUsable(r) THEN "otp_submit" ELSE "login_catch"
    /\ UNCHANGED << runVars, sinkVars, open, netVars, loginVars, steps, chainVars >>
    /\ otpWaits' = otpWaits + 1
    /\ UNCHANGED << probes, profiles, fsVars, callVars, handoffVars, timeoutMs, elapsedTime, polls >>

\* navigation.js:540-551: fill the field, press Enter, wait for the answer.
handleOTPFlow_submit ==
    /\ prog \in Drivers /\ pc = "otp_submit"
    /\ \/ /\ error' = "page.fill: Timeout exceeded."
          /\ pc' = "login_catch"
          /\ UNCHANGED << page, otpSubmits, otpAccepted, steps >>
       \/ \E pg \in PostOtpPages :
             /\ page' = pg
             /\ otpSubmits' = otpSubmits + 1
             /\ otpAccepted' = (pg = "dashboard")
             /\ steps' = Append(steps, "OTPSubmitted")
             /\ pc' = "otp_result"
             /\ error' = error
    /\ UNCHANGED << runVars, sinkVars, open, netVars, loginResult, chainVars >>
    /\ UNCHANGED << countVars, profiles, fsVars, callVars, handoffVars, waitVars >>

\* navigation.js:553-602, 794-802: the result of checkOTPResult is what login returns.
handleOTPFlow_result ==
    /\ prog \in Drivers /\ pc = "otp_result"
    /\ loginResult' = checkOTPResult(page)
    /\ steps' = IF checkOTPResult(page).success
                  THEN Append(Append(steps, "OTPVerified"), "LoginVerified") ELSE steps
    /\ pc' = "login_returned"
    /\ UNCHANGED << runVars, sinkVars, open, netVars, page, error, otpSubmits,
                    otpAccepted, chainVars >>
    /\ UNCHANGED << countVars, profiles, fsVars, callVars, handoffVars, waitVars >>

\* navigation.js:804-820: any exception inside login closes the page and is
\* returned as a failure.
login_catch ==
    /\ prog \in Drivers /\ pc = "login_catch"
    /\ page' = "closed"
    /\ open' = open \ { "page" }
    /\ loginResult' = [ defined |-> TRUE, success |-> FALSE, error |-> error ]
    /\ error' = "none"
    /\ pc' = "login_returned"
    /\ UNCHANGED << runVars, sinkVars, netVars, otpSubmits, otpAccepted, steps, chainVars >>
    /\ UNCHANGED << countVars, profiles, fsVars, callVars, handoffVars, waitVars >>

(* uploadFile, the try block (redeban.js:107-187) *)

\* redeban.js:110-122: a failed login is recorded and the function returns.
uploadFile_loginReturned ==
    /\ prog \in Drivers /\ pc = "login_returned"
    /\ IF ~loginResult.success THEN
          \E ok \in BOOLEAN :
             /\ writeMetadataToS3("failed", loginResult.error, "login", ok)
             /\ error' = IF ok THEN error ELSE S3Error
             /\ pc' = IF ok THEN "finally" ELSE "catch"
       ELSE
          /\ pc' = "goto_upload"
          /\ UNCHANGED << sinkVars, error >>
    /\ UNCHANGED << runVars, open, netVars, loginVars, steps, chainVars >>
    /\ UNCHANGED << countVars, profiles, fsVars, callVars, handoffVars, waitVars >>

\* redeban.js:124-128
uploadFile_gotoUpload ==
    /\ prog \in Drivers /\ pc = "goto_upload"
    /\ \E ok \in BOOLEAN :
          /\ steps' = IF ok THEN Append(steps, "UploadPage") ELSE steps
          /\ error' = IF ok THEN error ELSE "page.waitForSelector: Timeout 15000ms exceeded."
          /\ pc' = IF ok THEN "download" ELSE "catch"
    /\ UNCHANGED << runVars, sinkVars, open, netVars, loginVars, chainVars >>
    /\ UNCHANGED << countVars, profiles, fsVars, callVars, handoffVars, waitVars >>

\* redeban.js:130-132
uploadFile_download ==
    /\ prog \in Drivers /\ pc = "download"
    /\ \E ok \in BOOLEAN :
          /\ steps' = IF ok THEN Append(steps, "FileDownloaded") ELSE steps
          /\ error' = IF ok THEN error ELSE "Timeout esperando archivo detokenizado"
          /\ pc' = IF ok THEN "select_file" ELSE "catch"
    /\ UNCHANGED << runVars, sinkVars, open, netVars, loginVars, chainVars >>
    /\ UNCHANGED << countVars, profiles, fsVars, callVars, handoffVars, waitVars >>

\* redeban.js:134-137
uploadFile_selectFile ==
    /\ prog \in Drivers /\ pc = "select_file"
    /\ \E ok \in BOOLEAN :
          /\ steps' = IF ok THEN Append(steps, "FileSelected") ELSE steps
          /\ error' = IF ok THEN error ELSE "page.setInputFiles failed"
          /\ pc' = IF ok THEN "fill_form" ELSE "catch"
    /\ UNCHANGED << runVars, sinkVars, open, netVars, loginVars, chainVars >>
    /\ UNCHANGED << countVars, profiles, fsVars, callVars, handoffVars, waitVars >>

\* redeban.js:139-153: description, agreement, wait for the enabled button.
uploadFile_fillForm ==
    /\ prog \in Drivers /\ pc = "fill_form"
    /\ \E ok \in BOOLEAN :
          /\ error' = IF ok THEN error ELSE "page.waitForFunction: Timeout 10000ms exceeded."
          /\ pc' = IF ok THEN "submit" ELSE "catch"
    /\ UNCHANGED << runVars, sinkVars, open, netVars, loginVars, steps, chainVars >>
    /\ UNCHANGED << countVars, profiles, fsVars, callVars, handoffVars, waitVars >>

\* What the portal shows after the click on 'Enviar': a success alert, an
\* error alert, or no confirmation at all.
PostSubmitPages == { "alert-success", "alert-danger", "noConfirmation" }

\* redeban.js:155-161 (part_004:292-309): click 'Enviar', then a fixed wait
\* (part_004: and a wait for any alert whose timeout is swallowed) and a
\* screenshot; what the page shows is not looked at.
uploadFile_submit ==
    /\ prog \in Drivers /\ pc = "submit"
    /\ \E ok \in BOOLEAN, shown \in PostSubmitPages :
          /\ steps' = IF ok THEN Append(steps, "FormSubmitted") ELSE steps
          /\ page' = IF ok THEN shown ELSE page
          /\ error' = IF ok THEN error ELSE "page.click: Timeout exceeded."
          /\ pc' = IF ok THEN "completed" ELSE "catch"
    /\ UNCHANGED << runVars, sinkVars, open, netVars, loginResult, otpSubmits,
                    otpAccepted, chainVars >>
    /\ UNCHANGED << countVars, profiles, fsVars, callVars, handoffVars, waitVars >>

\* redeban.js:163-170
uploadFile_completed ==
    /\ prog \in Drivers /\ pc = "completed"
    /\ \E ok \in BOOLEAN :
          /\ writeMetadataToS3("completed", "none", "none", ok)
          /\ error' = IF ok THEN error ELSE S3Error
          /\ pc' = IF ok THEN "finally" ELSE "catch"
    /\ UNCHANGED << runVars, open, netVars, loginVars, steps, chainVars >>
    /\ UNCHANGED << countVars, profiles, fsVars, callVars, handoffVars, waitVars >>

\* redeban.js:172-181: the catch block records the error; when that write is
\* rejected too the exception leaves uploadFile after the finally block.
uploadFile_catch ==
    /\ prog \in Drivers /\ pc = "catch"
    /\ \E ok \in BOOLEAN :
          /\ writeMetadataToS3("failed", error, "none", ok)
          /\ error' = IF ok THEN "none" ELSE S3Error
    /\ pc' = "finally"
    /\ UNCHANGED << runVars, open, netVars, loginVars, steps, chainVars >>
    /\ UNCHANGED << countVars, profiles, fsVars, callVars, handoffVars, waitVars >>

\* redeban.js:183-186: browser.close() closes the browser and all its contexts.
uploadFile_finally ==
    /\ prog \in Drivers /\ pc = "finally"
    /\ open' = { }
    /\ pc' = "done"
    /\ UNCHANGED << runVars, sinkVars, netVars, loginVars, error, steps, chainVars >>
    /\ UNCHANGED << countVars, profiles, fsVars, callVars, handoffVars, waitVars >>

-----------------------------------------------------------------------------
(* uploadFile, version 2.0.0 (part_004): no connectivity probe, the context
   comes from createProxyContext *)

\* part_004:78-83: before the try block.
uploadFileProxy_started ==
    /\ prog = "uploadFileProxy" /\ pc = "started"
    /\ \E ok \in BOOLEAN :
          /\ writeMetadataToS3("started", "none", "none", ok)
          /\ pc' = IF ok THEN "launch" ELSE "done"
          /\ error' = IF ok THEN error ELSE S3Error
    /\ UNCHANGED << runVars, open, netVars, loginVars, steps, chainVars >>
    /\ UNCHANGED << countVars, profiles, fsVars, callVars, handoffVars, waitVars >>

\* part_004:85-152: chromium.launch, before the try block.
uploadFileProxy_launch ==
    /\ prog = "uploadFileProxy" /\ pc = "launch"
    /\ \E ok \in BOOLEAN :
          /\ open' = IF ok THEN { "browser" } ELSE open
          /\ pc' = IF ok THEN "context" ELSE "done"
          /\ error' = IF ok THEN error ELSE "browserType.launch failed"
    /\ UNCHANGED << runVars, sinkVars, netVars, loginVars, steps, chainVars >>
    /\ UNCHANGED << countVars, profiles, fsVars, callVars, handoffVars, waitVars >>

\* part_004:154-157: createProxyContext(browser, config) is called without
\* any connectivity result.  modules/utils.js does not export it, so the call
\* either throws (utils.js:292-306) or, with a utils module that has it,
\* returns a context routed via the configured proxy.
createProxyContext ==
    /\ prog = "uploadFileProxy" /\ pc = "context"
    /\ \E exported \in BOOLEAN :
          IF exported THEN
              /\ context' = [ defined |-> TRUE, proxy |-> TRUE,
                              server |-> << config.proxyHost, config.proxyPort >>,
                              username |-> config.proxyUsername,
                              password |-> config.proxyPassword,
                              acceptLanguage |-> "es-CO,es;q=0.9,en;q=0.8" ]
              /\ open' = open \cup { "context", "page" }
              /\ steps' = Append(steps, "SessionBuilt")
              /\ pc' = "login_goto"
              /\ error' = error
          ELSE
              /\ error' = "TypeError: createProxyContext is not a function"
              /\ pc' = "done"
              /\ UNCHANGED << context, open, steps >>
    /\ UNCHANGED << runVars, sinkVars, probe, connectivityResult, loginVars, chainVars >>
    /\ UNCHANGED << countVars, profiles, fsVars, callVars, handoffVars, waitVars >>

-----------------------------------------------------------------------------
(* createOptimalBrowserContext called twice with the same arguments *)

\* Variant of needsProbe that probes whatever it is given.
needsProbe_always(conn) == TRUE

\* utils.js:222: if (!connectivityResult)
needsProbe(conn) == ~conn.defined

\* utils.js:218-288: one call.  Without a connectivity result the function
\* runs checkNetworkConnectivity itself (utils.js:222-224) before it chooses
\* the branch; the argument of the caller is not changed.
createOptimalBrowserContext_call ==
    /\ prog = "contextBuilder" /\ pc \in { "started", "called" }
    /\ IF needsProbe(connectivityResult) THEN
          \E o \in ProbeOutcomes :
             /\ probe' = o
             /\ probes' = probes + 1
             /\ profiles' = Append(profiles,
                   createOptimalBrowserContext(config, checkNetworkConnectivity(o)))
       ELSE
          /\ profiles' = Append(profiles,
                createOptimalBrowserContext(config, connectivityResult))
          /\ UNCHANGED << probe, probes >>
    /\ open' = IF profiles'[Len(profiles')].threw THEN open ELSE open \cup { "context" }
    /\ pc' = IF pc = "started" THEN "called" ELSE "done"
    /\ UNCHANGED << runVars, sinkVars, connectivityResult, context, loginVars, error,
                    steps, chainVars, otpWaits, waitVars, fsVars, callVars, handoffVars >>

-----------------------------------------------------------------------------
(* waitForOTPFromWebSocket and waitForOTPFromConsole (navigation.js) *)

\* Variant of checkForOTPFile that keeps waiting on invalid content without
\* counting the poll.
checkForOTPFile_invalidNotCounted(fileState, elapsed, timeout) ==
    IF fileState = "valid" THEN
        [ settled |-> TRUE, outcome |-> "resolved", elapsedTime |-> elapsed ]
    ELSE IF fileState = "invalid" THEN
        [ settled |-> FALSE, outcome |-> "pending", elapsedTime |-> elapsed ]
    ELSE IF elapsed + CheckInterval >= timeout THEN
        [ settled |-> TRUE, outcome |-> "rejected", elapsedTime |-> elapsed + CheckInterval ]
    ELSE
        [ settled |-> FALSE, outcome |-> "pending", elapsedTime |-> elapsed + CheckInterval ]

\* navigation.js:78-142: one run of checkForOTPFile.  A six-digit OTP
\* resolves; every other outcome (file absent, read error, invalid content)
\* adds checkInterval to elapsedTime and rejects once it reaches timeoutMs.
checkForOTPFile(fileState, elapsed, timeout) ==
    IF fileState = "valid" THEN
        [ settled |-> TRUE, outcome |-> "resolved", elapsedTime |-> elapsed ]
    ELSE IF elapsed + CheckInterval >= timeout THEN
        [ settled |-> TRUE, outcome |-> "rejected", elapsedTime |-> elapsed + CheckInterval ]
    ELSE
        [ settled |-> FALSE, outcome |-> "pending", elapsedTime |-> elapsed + CheckInterval ]

\* navigation.js:58-76, 145: elapsedTime = 0 and the first timer is armed.
waitForOTPFromWebSocket_start ==
    /\ prog = "otpWebSocket" /\ pc = "started"
    /\ elapsedTime' = 0
    /\ otpWaits' = otpWaits + 1
    /\ pc' = "polling"
    /\ UNCHANGED << runVars, sinkVars, open, netVars, loginVars, error, steps, chainVars,
                    probes, profiles, fsVars, callVars, handoffVars, timeoutMs, polls, otp >>

\* navigation.js:78-142: the timer fires and checkForOTPFile runs.
waitForOTPFromWebSocket_poll ==
    /\ prog = "otpWebSocket" /\ pc = "polling"
    /\ \E f \in OtpFileStates :
          LET r == checkForOTPFile(f, elapsedTime, timeoutMs) IN
          /\ polls' = polls + 1
          /\ elapsedTime' = r.elapsedTime
          /\ otp' = r.outcome
          /\ pc' = IF r.settled THEN "done" ELSE "polling"
    /\ UNCHANGED << runVars, sinkVars, open, netVars, loginVars, error, steps, chainVars,
                    countVars, profiles, fsVars, callVars, handoffVars, timeoutMs >>

\* navigation.js:158-180: the answer to rl.question resolves (an empty
\* answer included) unless the timer of timeoutMs fired first.
waitForOTPFromConsole ==
    /\ prog = "otpConsole" /\ pc = "started"
    /\ \E answeredAt \in { 0, timeoutMs - 1, timeoutMs } :
          /\ elapsedTime' = answeredAt
          /\ otp' = IF answeredAt < timeoutMs THEN "resolved" ELSE "rejected"
    /\ otpWaits' = otpWaits + 1
    /\ pc' = "done"
    /\ UNCHANGED << runVars, sinkVars, open, netVars, loginVars, error, steps, chainVars,
                    probes, profiles, fsVars, callVars, handoffVars, timeoutMs, polls >>

-----------------------------------------------------------------------------
(* Two runs at the same time: waitForOTPFromWebSocket (navigation.js) and
   tryChromeDirect (redeban-hybrid.js) on the paths every run uses *)

\* What checkForOTPFile makes of the file: navigation.js:83-106.
otpFileState(f) ==
    IF ~f.exists THEN "absent"
    ELSE IF f.size = OtpLength THEN "valid"
    ELSE "invalid"

\* navigation.js:58-76, 145: a run starts waiting for its OTP.
twoWaits_start ==
    /\ prog = "twoWaits"
    /\ \E r \in RunIds :
          /\ runs[r].pc = "started"
          /\ runs' = [ runs EXCEPT ![r].pc = "polling", ![r].elapsedTime = 0 ]
    /\ UNCHANGED << pc, runVars, sinkVars, open, netVars, loginVars, error, steps,
                    chainVars, countVars, profiles, waitVars, tmp, callVars, handoffVars >>

\* The command center writes the OTP of a waiting run to the hand-off file.
twoWaits_deposit ==
    /\ prog = "twoWaits"
    /\ \E r \in RunIds :
          /\ runs[r].pc = "polling" /\ ~runs[r].deposited
          /\ tmp' = [ tmp EXCEPT ![OtpFilePath] =
                         [ exists |-> TRUE, owner |-> r, size |-> OtpLength ] ]
          /\ runs' = [ runs EXCEPT ![r].deposited = TRUE ]
    /\ UNCHANGED << pc, runVars, sinkVars, open, netVars, loginVars, error, steps,
                    chainVars, countVars, profiles, waitVars, callVars, handoffVars >>

\* navigation.js:78-142: checkForOTPFile of one run; a file that exists is
\* removed, a valid OTP is taken.
twoWaits_checkForOTPFile ==
    /\ prog = "twoWaits"
    /\ \E r \in RunIds :
          LET f == tmp[OtpFilePath]
              res == checkForOTPFile(otpFileState(f), runs[r].elapsedTime, timeoutMs) IN
          /\ runs[r].pc = "polling"
          /\ runs' = [ runs EXCEPT ![r].pc = IF res.settled THEN "done" ELSE "polling",
                                   ![r].elapsedTime = res.elapsedTime,
                                   ![r].otp = IF res.outcome = "resolved" THEN f.owner
                                                                          ELSE "none" ]
          /\ tmp' = IF f.exists THEN [ tmp EXCEPT ![OtpFilePath] = NoFile ] ELSE tmp
    /\ pc' = IF \A r \in RunIds : runs'[r].pc = "done" THEN "done" ELSE pc
    /\ UNCHANGED << runVars, sinkVars, open, netVars, loginVars, error, steps,
                    chainVars, countVars, profiles, waitVars, callVars, handoffVars >>

\* redeban-hybrid.js:151-153: a run spawns its Chrome subprocess.
twoChromes_spawn ==
    /\ prog = "twoChromes"
    /\ \E r \in RunIds :
          /\ runs[r].pc = "started"
          /\ runs' = [ runs EXCEPT ![r].pc = "running" ]
    /\ UNCHANGED << pc, runVars, sinkVars, open, netVars, loginVars, error, steps,
                    chainVars, countVars, profiles, waitVars, tmp, callVars, handoffVars >>

\* The Chrome subprocess of a run exits, having written its screenshot to
\* the path given by --screenshot or not.
twoChromes_exit ==
    /\ prog = "twoChromes"
    /\ \E r \in RunIds, code \in { 0, 1 }, wrote \in BOOLEAN :
          /\ runs[r].pc = "running"
          /\ tmp' = IF wrote
                      THEN [ tmp EXCEPT ![ChromeDirectScreenshotPath] =
                                [ exists |-> TRUE, owner |-> r, size |-> 4096 ] ]
                      ELSE tmp
          /\ runs' = [ runs EXCEPT ![r].pc = "exited", ![r].exitCode = code ]
    /\ UNCHANGED << pc, runVars, sinkVars, open, netVars, loginVars, error, steps,
                    chainVars, countVars, profiles, waitVars, callVars, handoffVars >>

\* redeban-hybrid.js:155-165: the 'close' handler of tryChromeDirect.
tryChromeDirect_close(code, f) ==
    [ success |-> (code = 0 /\ f.exists),
      evidence |-> IF f.exists THEN f.owner ELSE "none" ]

twoChromes_close ==
    /\ prog = "twoChromes"
    /\ \E r \in RunIds :
          LET res == tryChromeDirect_close(runs[r].exitCode, tmp[ChromeDirectScreenshotPath]) IN
          /\ runs[r].pc = "exited"
          /\ runs' = [ runs EXCEPT ![r].pc = "done", ![r].success = res.success,
                                   ![r].evidence = res.evidence ]
    /\ pc' = IF \A r \in RunIds : runs'[r].pc = "done" THEN "done" ELSE pc
    /\ UNCHANGED << runVars, sinkVars, open, netVars, loginVars, error, steps,
                    chainVars, countVars, profiles, waitVars, tmp, callVars, handoffVars >>

-----------------------------------------------------------------------------
(* retryWithBackoff (utils.js) *)

\* Variant of backoffDelay that waits baseDelay before every retry.
backoffDelay_constant(baseDelay, i) == baseDelay

\* utils.js:72: baseDelay * Math.pow(2, i)
backoffDelay(baseDelay, i) == baseDelay * 2 ^ i

\* utils.js:66-77: one iteration of the loop: fn is invoked; its result is
\* returned, or its error is rethrown on the last iteration, or the loop
\* sleeps and goes on.
retryWithBackoff_iteration ==
    /\ prog = "retryWithBackoff" /\ pc \in { "started", "looping" }
    /\ retry.i < retry.maxRetries
    /\ \E ok \in BOOLEAN, e \in FnErrors :
          IF ok THEN
              /\ retry' = [ retry EXCEPT !.calls = @ + 1, !.outcome = "returned" ]
              /\ pc' = "done"
          ELSE IF retry.i = retry.maxRetries - 1 THEN
              /\ retry' = [ retry EXCEPT !.calls = @ + 1, !.errors = Append(@, e),
                                         !.outcome = "threw", !.thrown = e ]
              /\ pc' = "done"
          ELSE
              /\ retry' = [ retry EXCEPT !.calls = @ + 1, !.errors = Append(@, e),
                               !.delays = Append(@, backoffDelay(retry.baseDelay, retry.i)),
                               !.i = @ + 1 ]
              /\ pc' = "looping"
    /\ UNCHANGED << runVars, sinkVars, open, netVars, loginVars, error, steps,
                    chainVars, countVars, profiles, waitVars, fsVars, detok, handoffVars >>

-----------------------------------------------------------------------------
(* waitForDetokenizedFile (modules/s3Service, part_007) *)

\* part_007:34-36
isRedebanFile(f) == f.redeban

\* Array.sort by LastModified, newest first, then element 0.
latestFile(files) == CHOOSE f \in files : \A g \in files : g.lastModified <= f.lastModified

\* Variant of detokIteration whose catch block does not count the attempt.
detokIteration_errorNotCounted(head, list, count) ==
    IF head = "found" THEN
        [ returned |-> TRUE, key |-> "uuid/processed-file.csv", attempts |-> count ]
    ELSE IF list.threw THEN
        [ returned |-> FALSE, key |-> "none", attempts |-> count ]
    ELSE
        [ returned |-> FALSE, key |-> "none", attempts |-> count + 1 ]

\* part_007:49-152: one iteration of the while loop for the answers S3 gives.
detokIteration(head, list, count) ==
    IF head = "found" THEN
        [ returned |-> TRUE, key |-> "uuid/processed-file.csv", attempts |-> count ]
    ELSE IF list.threw THEN
        [ returned |-> FALSE, key |-> "none", attempts |-> count + 1 ]
    ELSE IF list.contents = { } THEN
        [ returned |-> FALSE, key |-> "none", attempts |-> count + 1 ]
    ELSE
        LET redebanFiles == { f \in list.contents : isRedebanFile(f) }
            processedFiles == { f \in redebanFiles :
                                   \/ f.processed /\ isRedebanFile(f)
                                   \/ ~f.input /\ isRedebanFile(f) }
            anyFiles == { f \in redebanFiles : f.csvOrTxt /\ isRedebanFile(f) }
        IN  IF processedFiles # { } THEN
                [ returned |-> TRUE, key |-> latestFile(processedFiles).key,
                  attempts |-> count ]
            ELSE IF anyFiles # { } THEN
                [ returned |-> TRUE, key |-> latestFile(anyFiles).key, attempts |-> count ]
            ELSE
                [ returned |-> FALSE, key |-> "none", attempts |-> count + 1 ]

\* part_007:49: while (attempts < maxAttempts), one pass through the body.
waitForDetokenizedFile_iteration ==
    /\ prog = "waitForDetokenizedFile" /\ pc \in { "started", "looping" }
    /\ detok.attempts < detok.maxAttempts
    /\ \E head \in HeadAnswers, list \in ListAnswers :
          LET r == detokIteration(head, list, detok.attempts) IN
          /\ detok' = [ detok EXCEPT !.iterations = @ + 1,
                                     !.attempts = r.attempts,
                                     !.outcome = IF r.returned THEN "returned" ELSE @,
                                     !.key = r.key ]
          /\ pc' = IF r.returned THEN "done" ELSE "looping"
    /\ UNCHANGED << runVars, sinkVars, open, netVars, loginVars, error, steps,
                    chainVars, countVars, profiles, waitVars, fsVars, retry, handoffVars >>

\* part_007:49, 163: the loop condition fails and the timeout error is thrown.
waitForDetokenizedFile_timeout ==
    /\ prog = "waitForDetokenizedFile" /\ pc \in { "started", "looping" }
    /\ ~(detok.attempts < detok.maxAttempts)
    /\ detok' = [ detok EXCEPT !.outcome = "timeout" ]
    /\ pc' = "done"
    /\ UNCHANGED << runVars, sinkVars, open, netVars, loginVars, error, steps,
                    chainVars, countVars, profiles, waitVars, fsVars, retry, handoffVars >>

-----------------------------------------------------------------------------
(* waitForOTPFromWebSocket (navigation.js) polling while the command center
   writes the OTP file: checkForOTPFile step by step *)

\* navigation.js:90-98, 135-142: an unsuccessful poll adds checkInterval and
\* either rejects or arms the next timer.
otpHandoff_pollFailed(fileState) ==
    LET r == checkForOTPFile(fileState, elapsedTime, timeoutMs) IN
    /\ elapsedTime' = r.elapsedTime
    /\ otp' = r.outcome
    /\ polls' = polls + 1
    /\ pc' = IF r.settled THEN "done" ELSE "access"

\* navigation.js:145: the first timer is armed.
otpHandoff_start ==
    /\ prog = "otpHandoff" /\ pc = "started"
    /\ pc' = "access"
    /\ otpWaits' = otpWaits + 1
    /\ UNCHANGED << runVars, sinkVars, open, netVars, loginVars, error, steps, chainVars,
                    probes, profiles, waitVars, fsVars, callVars, handoffVars >>

\* The command center opens the file for writing: it exists and is empty.
commandCenter_open ==
    /\ prog = "otpHandoff" /\ pc \notin { "started", "done" } /\ writer = "idle"
    /\ tmp' = [ tmp EXCEPT ![OtpFilePath] = [ exists |-> TRUE, owner |-> "A", size |-> 0 ] ]
    /\ writer' = "opened"
    /\ UNCHANGED << pc, runVars, sinkVars, open, netVars, loginVars, error, steps, chainVars,
                    countVars, profiles, waitVars, runs, callVars, readBuf >>

\* The command center writes the six digits and closes the file; when the
\* file was unlinked in between, the digits go to the unlinked file.
commandCenter_write ==
    /\ prog = "otpHandoff" /\ writer \in { "opened", "unlinked" }
    /\ tmp' = IF writer = "opened"
                THEN [ tmp EXCEPT ![OtpFilePath].size = OtpLength ]
                ELSE tmp
    /\ writer' = "closed"
    /\ UNCHANGED << pc, runVars, sinkVars, open, netVars, loginVars, error, steps, chainVars,
                    countVars, profiles, waitVars, runs, callVars, readBuf >>

\* navigation.js:83-98: fs.access.
checkForOTPFile_access ==
    /\ prog = "otpHandoff" /\ pc = "access"
    /\ IF tmp[OtpFilePath].exists
         THEN /\ pc' = "read"
              /\ UNCHANGED << elapsedTime, otp, polls >>
         ELSE otpHandoff_pollFailed("absent")
    /\ UNCHANGED << runVars, sinkVars, open, netVars, loginVars, error, steps, chainVars,
                    countVars, profiles, timeoutMs, fsVars, callVars, handoffVars >>

\* navigation.js:101-106: fs.readFile and the test of the trimmed content.
checkForOTPFile_read ==
    /\ prog = "otpHandoff" /\ pc = "read"
    /\ readBuf' = tmp[OtpFilePath].size
    /\ pc' = "unlink"
    /\ UNCHANGED << runVars, sinkVars, open, netVars, loginVars, error, steps, chainVars,
                    countVars, profiles, waitVars, fsVars, callVars, writer >>

\* navigation.js:106-130: fs.unlink in both branches; a six-digit content
\* resolves, any other content counts as an unsuccessful poll.
checkForOTPFile_unlink ==
    /\ prog = "otpHandoff" /\ pc = "unlink"
    /\ tmp' = [ tmp EXCEPT ![OtpFilePath] = NoFile ]
    /\ writer' = IF writer = "opened" THEN "unlinked" ELSE writer
    /\ IF readBuf = OtpLength
         THEN /\ otp' = "resolved"
              /\ polls' = polls + 1
              /\ pc' = "done"
              /\ UNCHANGED elapsedTime
         ELSE otpHandoff_pollFailed("invalid")
    /\ UNCHANGED << runVars, sinkVars, open, netVars, loginVars, error, steps, chainVars,
                    countVars, profiles, timeoutMs, runs, callVars, readBuf >>

-----------------------------------------------------------------------------
(* runHybridAutomation (redeban-hybrid.js) *)

\* redeban-hybrid.js:366-372: the 'started' write is inside the try block.
runHybridAutomation_started ==
    /\ prog = "hybrid" /\ pc = "started"
    /\ \E ok \in BOOLEAN :
          /\ writeMetadataToS3("started", "none", "none", ok)
          /\ pc' = IF ok THEN "connectivity" ELSE "catch"
          /\ error' = IF ok THEN error ELSE S3Error
    /\ UNCHANGED << runVars, open, netVars, loginVars, steps, chainVars >>
    /\ UNCHANGED << countVars, profiles, fsVars, callVars, handoffVars, waitVars >>

\* redeban-hybrid.js:55: canConnect of a response with the given status code.
canConnect(statusCode) == statusCode = HttpOK \/ statusCode = HttpForbidden

\* redeban-hybrid.js:19-68, 374-379: HTTPS request from Node.js; a request
\* error or timeout resolves with canConnect false.
verifyNodeJSConnectivity ==
    /\ prog = "hybrid" /\ pc = "connectivity"
    /\ \E o \in ProbeOutcomes :
          LET can == IF o.threw THEN FALSE ELSE canConnect(o.statusCode) IN
          /\ probe' = o
          /\ pc' = IF can THEN "try_puppeteer" ELSE "catch"
          /\ error' = IF can THEN error ELSE "No hay conectividad de red"
    /\ steps' = Append(steps, "ConnectivityChecked")
    /\ UNCHANGED << runVars, sinkVars, open, connectivityResult, context, loginVars,
                    chainVars >>
    /\ probes' = probes + 1
    /\ UNCHANGED << otpWaits, profiles, fsVars, callVars, handoffVars, waitVars >>

\* redeban-hybrid.js:383-402: the engines in the order they are tried.
HybridEngineOrder == << "puppeteer-minimal", "chrome-direct" >>

\* redeban-hybrid.js:74-117, 386-389: first engine.  The finally block of
\* tryPuppeteerMinimal awaits page.close() and browser.close(); when one of
\* them rejects the function rejects whatever the try block returned.
tryPuppeteerMinimal ==
    /\ prog = "hybrid" /\ pc = "try_puppeteer"
    /\ \E success \in BOOLEAN, closeThrew \in BOOLEAN :
          /\ attempts' = Append(attempts, [ engine |-> HybridEngineOrder[1],
                                            success |-> success /\ ~closeThrew,
                                            size |-> 0, evidence |-> "none" ])
          /\ workingMethod' = IF success /\ ~closeThrew THEN HybridEngineOrder[1]
                                                       ELSE workingMethod
          /\ pc' = IF closeThrew THEN "catch" ELSE "try_chrome"
          /\ error' = IF closeThrew THEN "Protocol error: Target closed" ELSE error
          /\ open' = IF closeThrew THEN open \cup { "browser" } ELSE open
    /\ UNCHANGED << runVars, sinkVars, netVars, loginVars, steps, chainResult >>
    /\ UNCHANGED << countVars, profiles, fsVars, callVars, handoffVars, waitVars >>

\* Variant of shouldTryNext that tries the next engine unconditionally.
shouldTryNext_always(method) == TRUE

\* redeban-hybrid.js:392: the second engine runs only while no method works.
shouldTryNext(method) == method = "none"

\* redeban-hybrid.js:122-177, 391-402: second engine, then the chain result.
tryChromeDirect ==
    /\ prog = "hybrid" /\ pc = "try_chrome"
    /\ IF shouldTryNext(workingMethod) THEN
          \E ev \in { "close", "error", "timeout" }, code \in { 0, 1 }, wrote \in BOOLEAN :
             LET file == IF wrote /\ ev # "error" THEN Written(4096)
                                                  ELSE tmp[ChromeDirectScreenshotPath]
                 res == tryChromeDirect_close(code, file)
                 success == ev = "close" /\ res.success IN
             /\ tmp' = [ tmp EXCEPT ![ChromeDirectScreenshotPath] = file ]
             /\ attempts' = Append(attempts, [ engine |-> HybridEngineOrder[2],
                                               success |-> success, size |-> 0,
                                               evidence |-> res.evidence ])
             /\ workingMethod' = IF success THEN HybridEngineOrder[2] ELSE workingMethod
       ELSE
          UNCHANGED << attempts, workingMethod, tmp >>
    /\ pc' = IF workingMethod' = "none" THEN "catch" ELSE "login"
    /\ error' = IF workingMethod' = "none" THEN "Ningun metodo de navegador funciono"
                                          ELSE error
    /\ UNCHANGED << runVars, sinkVars, open, netVars, loginVars, steps, chainResult >>
    /\ UNCHANGED << countVars, profiles, runs, callVars, handoffVars, waitVars >>

\* redeban-hybrid.js:182-192, 303-353, 407-421: login with the working
\* method.  loginWithPuppeteer settles with a result (its goto and waits
\* carry timeouts); loginWithChromeDirect spawns its first Chrome subprocess.
performActualLogin ==
    /\ prog = "hybrid" /\ pc = "login"
    /\ IF workingMethod = "chrome-direct" THEN
          /\ open' = open \cup { "chrome1" }
          /\ pc' = "chrome1"
          /\ UNCHANGED << loginResult, steps, error >>
       ELSE
          \E success \in BOOLEAN :
             /\ loginResult' = [ defined |-> TRUE, success |-> success,
                                 error |-> IF success THEN "none" ELSE "login failed" ]
             /\ steps' = IF success
                           THEN steps \o << "CredentialsSubmitted", "LoginVerified" >>
                           ELSE steps
             /\ pc' = IF success THEN "completed" ELSE "catch"
             /\ error' = IF success THEN error ELSE "Login fallo"
             /\ open' = open
    /\ UNCHANGED << runVars, sinkVars, netVars, page, otpSubmits, otpAccepted,
                    chainVars >>
    /\ UNCHANGED << countVars, profiles, fsVars, callVars, handoffVars, waitVars >>

\* What a spawned Chrome subprocess can do: exit with code 0 and a
\* screenshot, exit otherwise, fail to spawn ('error'), or never exit.
ChromeEvents == { "close_ok", "close_failed", "error", "never" }

\* redeban-hybrid.js:197-298: the promise is settled only from the 'close'
\* and 'error' handlers of chrome1; no timer is armed for it.
loginWithChromeDirect_chrome1 ==
    /\ prog = "hybrid" /\ pc = "chrome1"
    /\ \E ev \in ChromeEvents :
          CASE ev = "close_ok" ->
                  /\ open' = (open \ { "chrome1" }) \cup { "chrome2" }
                  /\ pc' = "chrome2"
                  /\ UNCHANGED << loginResult, error >>
            [] ev \in { "close_failed", "error" } ->
                  /\ open' = open \ { "chrome1" }
                  /\ loginResult' = [ defined |-> TRUE, success |-> FALSE,
                                      error |-> "Chrome failed" ]
                  /\ error' = "Login fallo"
                  /\ pc' = "catch"
            [] ev = "never" ->
                  /\ pc' = "blocked"
                  /\ UNCHANGED << open, loginResult, error >>
    /\ UNCHANGED << runVars, sinkVars, netVars, page, otpSubmits, otpAccepted, steps,
                    chainVars >>
    /\ UNCHANGED << countVars, profiles, fsVars, callVars, handoffVars, waitVars >>

\* redeban-hybrid.js:250-275: the second screenshot; the simulated success is
\* resolved from the 'close' and 'error' handlers of chrome2 only.
loginWithChromeDirect_chrome2 ==
    /\ prog = "hybrid" /\ pc = "chrome2"
    /\ \E ev \in ChromeEvents :
          IF ev = "never" THEN
              /\ pc' = "blocked"
              /\ UNCHANGED << open, loginResult, steps >>
          ELSE
              /\ open' = open \ { "chrome2" }
              /\ loginResult' = [ defined |-> TRUE, success |-> TRUE, error |-> "none" ]
              /\ steps' = Append(steps, "LoginVerified")
              /\ pc' = "completed"
    /\ UNCHANGED << runVars, sinkVars, netVars, page, otpSubmits, otpAccepted, error,
                    chainVars >>
    /\ UNCHANGED << countVars, profiles, fsVars, callVars, handoffVars, waitVars >>


\* redeban-hybrid.js:410-418
runHybridAutomation_completed ==
    /\ prog = "hybrid" /\ pc = "completed"
    /\ \E ok \in BOOLEAN :
          /\ writeMetadataToS3("completed", "none", "none", ok)
          /\ error' = IF ok THEN error ELSE S3Error
          /\ pc' = IF ok THEN "done" ELSE "catch"
    /\ UNCHANGED << runVars, open, netVars, loginVars, steps, chainVars >>
    /\ UNCHANGED << countVars, profiles, fsVars, callVars, handoffVars, waitVars >>

\* redeban-hybrid.js:424-435: record the failure, then rethrow.
runHybridAutomation_catch ==
    /\ prog = "hybrid" /\ pc = "catch"
    /\ \E ok \in BOOLEAN :
          /\ writeMetadataToS3("failed", error, "none", ok)
          /\ error' = IF ok THEN error ELSE S3Error
    /\ pc' = "done"
    /\ UNCHANGED << runVars, open, netVars, loginVars, steps, chainVars >>
    /\ UNCHANGED << countVars, profiles, fsVars, callVars, handoffVars, waitVars >>

-----------------------------------------------------------------------------
(* runComprehensiveSolution with runDualChromeTest (part_003) *)

\* part_003:517-523
dualChrome_started ==
    /\ prog = "dualChrome" /\ pc = "started"
    /\ \E ok \in BOOLEAN :
          /\ writeMetadataToS3("started", "none", "none", ok)
          /\ pc' = IF ok THEN "try_simple" ELSE "catch"
          /\ error' = IF ok THEN error ELSE S3Error
    /\ UNCHANGED << runVars, open, netVars, loginVars, steps, chainVars >>
    /\ UNCHANGED << countVars, profiles, fsVars, callVars, handoffVars, waitVars >>

\* part_003:429-504: the result runChromeTest resolves with for a screenshot
\* of the given size (0: no screenshot file).
runChromeTest(testName, size) ==
    IF size > 0
      THEN [ engine |-> testName, success |-> size > DualChromeThreshold, size |-> size ]
      ELSE [ engine |-> testName, success |-> FALSE, size |-> 0 ]

\* The file at a --screenshot path once the subprocess has exited: the
\* screenshot it wrote, or whatever was at the path when it wrote none
\* (produced = 0).
afterChrome(file, produced) == IF produced > 0 THEN Written(produced) ELSE file

\* part_003:450-484: the 'close' handler looks at the file at the fixed
\* path; the attempt is recorded with the run whose screenshot it judged.
chromeAttempt(testName, file) ==
    LET r == runChromeTest(testName, IF file.exists THEN file.size ELSE 0) IN
    [ engine |-> r.engine, success |-> r.success, size |-> r.size,
      evidence |-> IF file.exists THEN file.owner ELSE "none" ]

\* part_003:365-381: Test 1.
runDualChromeTest_simple ==
    /\ prog = "dualChrome" /\ pc = "try_simple"
    /\ \E produced \in ScreenshotSizes :
          /\ tmp' = [ tmp EXCEPT ![DualSimplePath] = afterChrome(@, produced) ]
          /\ attempts' = Append(attempts,
                             chromeAttempt("chrome-simple", tmp'[DualSimplePath]))
    /\ pc' = "try_stealth"
    /\ UNCHANGED << runVars, sinkVars, open, netVars, loginVars, error, steps,
                    workingMethod, chainResult >>
    /\ UNCHANGED << countVars, profiles, runs, callVars, handoffVars, waitVars >>

\* Variant of selectDualResult that hands on the last result when both failed.
selectDualResult_lastAttempt(simpleResult, stealthResult) ==
    IF simpleResult.success THEN simpleResult ELSE stealthResult

\* part_003:408-425: the successful result, or the one with the larger
\* screenshot when both failed.
selectDualResult(simpleResult, stealthResult) ==
    IF simpleResult.success THEN simpleResult
    ELSE IF stealthResult.success THEN stealthResult
    ELSE IF simpleResult.size > stealthResult.size THEN simpleResult
    ELSE stealthResult

\* part_003:383-426: Test 2 is run whatever Test 1 returned ("ALWAYS run
\* both for comparison"), then the two results are compared.
runDualChromeTest_stealth ==
    /\ prog = "dualChrome" /\ pc = "try_stealth"
    /\ \E produced \in ScreenshotSizes :
          LET file == afterChrome(tmp[DualStealthPath], produced)
              stealthResult == chromeAttempt("chrome-stealth", file)
              r == selectDualResult(attempts[1], stealthResult) IN
          /\ tmp' = [ tmp EXCEPT ![DualStealthPath] = file ]
          /\ attempts' = Append(attempts, stealthResult)
          /\ chainResult' = [ defined |-> TRUE, success |-> r.success,
                              method |-> r.engine, screenshotSize |-> r.size ]
          /\ workingMethod' = IF r.success THEN r.engine ELSE "none"
    /\ pc' = "completed"
    /\ UNCHANGED << runVars, sinkVars, open, netVars, loginVars, error, steps >>
    /\ UNCHANGED << countVars, profiles, runs, callVars, handoffVars, waitVars >>

\* part_003:531-552: 'completed' is written whether or not the chain
\* succeeded; the outcome only appears as details.status.
dualChrome_completed ==
    /\ prog = "dualChrome" /\ pc = "completed"
    /\ \E ok \in BOOLEAN :
          /\ writeMetadataToS3("completed", "none", "none", ok)
          /\ error' = IF ok THEN error ELSE S3Error
          /\ pc' = IF ok THEN "done" ELSE "catch"
    /\ UNCHANGED << runVars, open, netVars, loginVars, steps, chainVars >>
    /\ UNCHANGED << countVars, profiles, fsVars, callVars, handoffVars, waitVars >>

\* part_003:554-564
dualChrome_catch ==
    /\ prog = "dualChrome" /\ pc = "catch"
    /\ \E ok \in BOOLEAN :
          /\ writeMetadataToS3("failed", error, "none", ok)
          /\ error' = IF ok THEN error ELSE S3Error
    /\ pc' = "done"
    /\ UNCHANGED << runVars, open, netVars, loginVars, steps, chainVars >>
    /\ UNCHANGED << countVars, profiles, fsVars, callVars, handoffVars, waitVars >>

-----------------------------------------------------------------------------
(* runComprehensiveSolution (redeban-final-solution.js) *)

\* redeban-final-solution.js:355-361
finalSolution_started ==
    /\ prog = "finalSolution" /\ pc = "started"
    /\ \E ok \in BOOLEAN :
          /\ writeMetadataToS3("started", "none", "none", ok)
          /\ pc' = IF ok THEN "try_stealth" ELSE "catch"
          /\ error' = IF ok THEN error ELSE S3Error
    /\ UNCHANGED << runVars, open, netVars, loginVars, steps, chainVars >>
    /\ UNCHANGED << countVars, profiles, fsVars, callVars, handoffVars, waitVars >>

\* redeban-final-solution.js:255-300: the single engine of this chain.
runAntiDetectionAutomation ==
    /\ prog = "finalSolution" /\ pc = "try_stealth"
    /\ \E produced \in ScreenshotSizes :
          LET file == afterChrome(tmp[StealthStartPath], produced)
              size == IF file.exists THEN file.size ELSE 0
              success == size > StealthThreshold IN
          /\ tmp' = [ tmp EXCEPT ![StealthStartPath] = file ]
          /\ attempts' = Append(attempts, [ engine |-> "stealth-chrome",
                                            success |-> success, size |-> size,
                                            evidence |-> IF file.exists THEN file.owner
                                                                        ELSE "none" ])
          /\ chainResult' = [ defined |-> TRUE, success |-> success,
                              method |-> "stealth-chrome", screenshotSize |-> size ]
          /\ workingMethod' = IF success THEN "stealth-chrome" ELSE "none"
    /\ pc' = "completed"
    /\ UNCHANGED << runVars, sinkVars, open, netVars, loginVars, error, steps >>
    /\ UNCHANGED << countVars, profiles, runs, callVars, handoffVars, waitVars >>

\* redeban-final-solution.js:380-397: 'completed' is written whether or not
\* the engine succeeded (details.status 'partial-success').
finalSolution_completed ==
    /\ prog = "finalSolution" /\ pc = "completed"
    /\ \E ok \in BOOLEAN :
          /\ writeMetadataToS3("completed", "none", "none", ok)
          /\ error' = IF ok THEN error ELSE S3Error
          /\ pc' = IF ok THEN "done" ELSE "catch"
    /\ UNCHANGED << runVars, open, netVars, loginVars, steps, chainVars >>
    /\ UNCHANGED << countVars, profiles, fsVars, callVars, handoffVars, waitVars >>

\* redeban-final-solution.js:406-418
finalSolution_catch ==
    /\ prog = "finalSolution" /\ pc = "catch"
    /\ \E ok \in BOOLEAN :
          /\ writeMetadataToS3("failed", error, "none", ok)
          /\ error' = IF ok THEN error ELSE S3Error
    /\ pc' = "done"
    /\ UNCHANGED << runVars, open, netVars, loginVars, steps, chainVars >>
    /\ UNCHANGED << countVars, profiles, fsVars, callVars, handoffVars, waitVars >>

-----------------------------------------------------------------------------
(* runRedebanAutomation (part_006, Puppeteer driver) *)

\* part_006:217-223: inside the try block.
runRedebanAutomation_started ==
    /\ prog = "puppeteer" /\ pc = "started"
    /\ \E ok \in BOOLEAN :
          /\ writeMetadataToS3("started", "none", "none", ok)
          /\ pc' = IF ok THEN "launch" ELSE "catch"
          /\ error' = IF ok THEN error ELSE S3Error
    /\ UNCHANGED << runVars, open, netVars, loginVars, steps, chainVars >>
    /\ UNCHANGED << countVars, profiles, fsVars, callVars, handoffVars, waitVars >>

\* part_006:225-227
runRedebanAutomation_launch ==
    /\ prog = "puppeteer" /\ pc = "launch"
    /\ \E ok \in BOOLEAN :
          /\ open' = IF ok THEN { "browser" } ELSE open
          /\ pc' = IF ok THEN "probe" ELSE "catch"
          /\ error' = IF ok THEN error ELSE "Failed to launch the browser process"
    /\ UNCHANGED << runVars, sinkVars, netVars, loginVars, steps, chainVars >>
    /\ UNCHANGED << countVars, profiles, fsVars, callVars, handoffVars, waitVars >>

\* part_006:56-96, 229-231: the probe of the Puppeteer driver classifies as
\* utils.js does; its page is closed only after a response.
runRedebanAutomation_probe ==
    /\ prog = "puppeteer" /\ pc = "probe"
    /\ \E o \in ProbeOutcomes :
          /\ probe' = o
          /\ connectivityResult' =
                [ checkNetworkConnectivity(o) EXCEPT
                    !.error = IF o.threw THEN o.message ELSE "none" ]
          /\ open' = IF o.threw THEN open \cup { "probePage" } ELSE open
    /\ steps' = Append(steps, "ConnectivityChecked")
    /\ pc' = "page"
    /\ UNCHANGED << runVars, sinkVars, context, loginVars, error, chainVars >>
    /\ probes' = probes + 1
    /\ UNCHANGED << otpWaits, profiles, fsVars, callVars, handoffVars, waitVars >>

\* part_006:108-135: the page is configured the same way in both branches;
\* the proxy branch only logs.
createOptimalPage(cfg, conn) ==
    [ defined |-> TRUE, proxy |-> FALSE, server |-> << >>,
      username |-> "none", password |-> "none",
      acceptLanguage |-> "es-CO,es;q=0.9,en;q=0.8" ]

\* part_006:233-234
runRedebanAutomation_page ==
    /\ prog = "puppeteer" /\ pc = "page"
    /\ \E ok \in BOOLEAN :
          /\ context' = IF ok THEN createOptimalPage(config, connectivityResult)
                              ELSE context
          /\ open' = IF ok THEN open \cup { "page" } ELSE open
          /\ steps' = IF ok THEN Append(steps, "SessionBuilt") ELSE steps
          /\ pc' = IF ok THEN "login" ELSE "catch"
          /\ error' = IF ok THEN error ELSE "browser.newPage failed"
    /\ UNCHANGED << runVars, sinkVars, probe, connectivityResult, loginVars, chainVars >>
    /\ UNCHANGED << countVars, profiles, fsVars, callVars, handoffVars, waitVars >>

\* part_006:148-201, 236-252: performLogin returns a boolean and never throws.
performLogin ==
    /\ prog = "puppeteer" /\ pc = "login"
    /\ \E pg \in { "dashboard", "login", "blank" } :
          LET success == (pg = "dashboard") IN
          /\ page' = pg
          /\ loginResult' = [ defined |-> TRUE, success |-> success,
                              error |-> IF success THEN "none" ELSE "Login failed" ]
          /\ steps' = IF success
                        THEN Append(Append(steps, "CredentialsSubmitted"), "LoginVerified")
                        ELSE steps
          /\ pc' = IF success THEN "completed" ELSE "catch"
          /\ error' = IF success THEN error ELSE "Login failed"
    /\ UNCHANGED << runVars, sinkVars, open, netVars, otpSubmits, otpAccepted, chainVars >>
    /\ UNCHANGED << countVars, profiles, fsVars, callVars, handoffVars, waitVars >>

\* part_006:239-249
runRedebanAutomation_completed ==
    /\ prog = "puppeteer" /\ pc = "completed"
    /\ \E ok \in BOOLEAN :
          /\ writeMetadataToS3("completed", "none", "none", ok)
          /\ error' = IF ok THEN error ELSE S3Error
          /\ pc' = IF ok THEN "finally" ELSE "catch"
    /\ UNCHANGED << runVars, open, netVars, loginVars, steps, chainVars >>
    /\ UNCHANGED << countVars, profiles, fsVars, callVars, handoffVars, waitVars >>

\* part_006:253-266: processUUID is a const of the try block, so evaluating
\* it in the catch block throws a ReferenceError before anything is written.
runRedebanAutomation_catch ==
    /\ prog = "puppeteer" /\ pc = "catch"
    /\ error' = "ReferenceError: processUUID is not defined"
    /\ pc' = "finally"
    /\ UNCHANGED << runVars, sinkVars, open, netVars, loginVars, steps, chainVars >>
    /\ UNCHANGED << countVars, profiles, fsVars, callVars, handoffVars, waitVars >>

\* part_006:267-280: page.close() then browser.close().
runRedebanAutomation_finally ==
    /\ prog = "puppeteer" /\ pc = "finally"
    /\ open' = { }
    /\ pc' = "done"
    /\ UNCHANGED << runVars, sinkVars, netVars, loginVars, error, steps, chainVars >>
    /\ UNCHANGED << countVars, profiles, fsVars, callVars, handoffVars, waitVars >>

Next ==
    \/ uploadFile_started
    \/ uploadFile_launch
    \/ uploadFile_probe
    \/ uploadFile_context
    \/ login_goto
    \/ fillLoginForm
    \/ submitLoginForm
    \/ login_credentialCheck
    \/ handleOTPFlow_detect
    \/ handleOTPFlow_wait
    \/ handleOTPFlow_submit
    \/ handleOTPFlow_result
    \/ login_catch
    \/ uploadFile_loginReturned
    \/ uploadFile_gotoUpload
    \/ uploadFile_download
    \/ uploadFile_selectFile
    \/ uploadFile_fillForm
    \/ uploadFile_submit
    \/ uploadFile_completed
    \/ uploadFile_catch
    \/ uploadFile_finally
    \/ uploadFileProxy_started
    \/ uploadFileProxy_launch
    \/ createProxyContext
    \/ createOptimalBrowserContext_call
    \/ waitForOTPFromWebSocket_start
    \/ waitForOTPFromWebSocket_poll
    \/ waitForOTPFromConsole
    \/ twoWaits_start
    \/ twoWaits_deposit
    \/ twoWaits_checkForOTPFile
    \/ twoChromes_spawn
    \/ twoChromes_exit
    \/ twoChromes_close
    \/ retryWithBackoff_iteration
    \/ waitForDetokenizedFile_iteration
    \/ waitForDetokenizedFile_timeout
    \/ otpHandoff_start
    \/ commandCenter_open
    \/ commandCenter_write
    \/ checkForOTPFile_access
    \/ checkForOTPFile_read
    \/ checkForOTPFile_unlink
    \/ runHybridAutomation_started
    \/ verifyNodeJSConnectivity
    \/ tryPuppeteerMinimal
    \/ tryChromeDirect
    \/ performActualLogin
    \/ loginWithChromeDirect_chrome1
    \/ loginWithChromeDirect_chrome2
    \/ runHybridAutomation_completed
    \/ runHybridAutomation_catch
    \/ dualChrome_started
    \/ runDualChromeTest_simple
    \/ runDualChromeTest_stealth
    \/ dualChrome_completed
    \/ dualChrome_catch
    \/ finalSolution_started
    \/ runAntiDetectionAutomation
    \/ finalSolution_completed
    \/ finalSolution_catch
    \/ runRedebanAutomation_started
    \/ runRedebanAutomation_launch
    \/ runRedebanAutomation_probe
    \/ runRedebanAutomation_page
    \/ performLogin
    \/ runRedebanAutomation_completed
    \/ runRedebanAutomation_catch
    \/ runRedebanAutomation_finally

Spec == Init /\ [][Next]_vars

-----------------------------------------------------------------------------
(* Properties *)

HasStatus(st) == \E i \in 1..Len(events) : events[i].status = st
TerminalStatuses == { "completed", "failed" }
HasTerminal == \E i \in 1..Len(events) : events[i].status \in TerminalStatuses
Reached(step) == \E i \in 1..Len(steps) : steps[i] = step
AllAttemptsFailed == \A i \in 1..Len(attempts) : ~attempts[i].success
AnyAttemptSucceeded == \E i \in 1..Len(attempts) : attempts[i].success
FirstSuccess == CHOOSE i \in 1..Len(attempts) :
                    attempts[i].success /\ \A j \in 1..(i - 1) : ~attempts[j].success

HasProxyConfig == config.proxyUsername # Undefined /\ config.proxyPassword # Undefined
RoutedViaProxy ==
    /\ context.proxy
    /\ context.server = << config.proxyHost, config.proxyPort >>
    /\ context.username = config.proxyUsername
    /\ context.password = config.proxyPassword
ProbeReachableNotBlocked == ~probe.threw /\ probe.statusCode = HttpOK /\ probe.marker
ProbeBlocked ==
    /\ ~probe.threw
    /\ \/ probe.statusCode = HttpForbidden
       \/ probe.statusCode = HttpOK /\ ~probe.marker
ProbeUnreachable == probe.threw
UploadSteps == { "UploadPage", "FileDownloaded", "FileSelected", "FormSubmitted" }
UploadPositions == { "goto_upload", "download", "select_file", "fill_form", "submit",
                     "completed" }

C2_AllFailedNeverCompleted ==
    (attempts # << >> /\ AllAttemptsFailed) => ~HasStatus("completed")

\* C3: the upload form is submitted only after an OTP was submitted to the
\* portal and accepted (OTPVerified precedes FormSubmitted).
C3_FormSubmittedOnlyAfterOTPVerified ==
    \A i \in 1..Len(steps) :
        steps[i] = "FormSubmitted" =>
            /\ otpAccepted
            /\ \E j \in 1..(i - 1) : steps[j] = "OTPVerified"

\* C4: the run-status events written are 'started' followed by at most one
\* terminal event.
C4_StartedThenAtMostOneTerminal ==
    /\ Len(events) <= 2
    /\ Len(events) >= 1 => events[1].status = "started"
    /\ Len(events) = 2 => events[2].status \in TerminalStatuses

\* C5: a run that recorded 'started' has recorded a terminal status by the
\* time it ends, whichever step failed.
C5_StartedRunEndsWithTerminal ==
    (pc = "done" /\ HasStatus("started")) => HasTerminal

\* C6: when the probe navigation threw and a proxy configuration is supplied,
\* the session context built by uploadFile routes via the proxy with the
\* endpoint taken from the configuration.
C6_UnreachableRoutesViaProxy ==
    (prog = "uploadFile" /\ context.defined /\ ProbeUnreachable /\ HasProxyConfig)
        => RoutedViaProxy

\* C7: when the probe got HTTP 200 with the title marker, the connectivity
\* result does not ask for the proxy and the context built carries no proxy
\* setting.
C7_ReachableNotBlockedGoesDirect ==
    (connectivityResult.defined /\ ProbeReachableNotBlocked) =>
        /\ ~connectivityResult.useProxy
        /\ context.defined =>
              /\ ~context.proxy
              /\ context.server = << >>
              /\ context.username = "none"

\* uploadFile built its context after a 200 probe with the marker although a
\* proxy configuration was available.
C7_Witness ==
    /\ prog = "uploadFile" /\ context.defined
    /\ ProbeReachableNotBlocked /\ HasProxyConfig
    /\ ~context.proxy

\* C8: when the probe outcome is classified blocked and a proxy configuration
\* is present, the session used for the rest of the run is routed via the
\* proxy with the endpoint taken from the configuration.
C8_BlockedSessionRoutedViaProxy ==
    (context.defined /\ ProbeBlocked /\ HasProxyConfig) => RoutedViaProxy

\* C9: when the connectivity result calls for the proxy and the proxy
\* credentials are unset, the selector does not fail and the context it
\* builds is not proxied.
C9_MissingProxyConfigFallsBackToDirect ==
    ( /\ prog = "uploadFile" /\ connectivityResult.defined /\ pc # "context"
      /\ (ProbeBlocked \/ ProbeUnreachable)
      /\ ~HasProxyConfig )
    => /\ error # "TypeError: Cannot read properties of undefined"
       /\ context.defined => ~context.proxy

\* C10: once the portal has rejected the submitted OTP, the OTP is not
\* submitted again, no upload step executes, and the run ends with a 'failed'
\* event that carries the OTP-invalid error and the step 'login' (the event
\* being the one the metadata sink accepted).
C10_RejectedOTPFailsAtLogin ==
    page = "otpInvalid" =>
        /\ otpSubmits = 1
        /\ ~otpAccepted
        /\ \A i \in 1..Len(steps) : steps[i] \notin UploadSteps
        /\ pc \notin UploadPositions
        /\ loginResult.defined =>
              /\ ~loginResult.success
              /\ loginResult.error = "OTP invalido o expirado"
        /\ ~HasStatus("completed")
        /\ (pc = "done" /\ ~sinkFailed) =>
              events = << [ status |-> "started", error |-> "none", step |-> "none" ],
                          [ status |-> "failed", error |-> "OTP invalido o expirado",
                            step |-> "login" ] >>

\* The run ended after the portal rejected the OTP and the failure was recorded.
C10_Witness ==
    /\ prog = "uploadFile" /\ pc = "done" /\ page = "otpInvalid"
    /\ otpSubmits = 1 /\ ~sinkFailed
    /\ Len(events) = 2 /\ events[2].step = "login"

\* C11: a failure event recorded by the workflow driver carries both the step
\* reached and the error (checked on runs in which the metadata sink accepted
\* every write), and no later step of the workflow is executed.
C11_FailureEventCarriesStepAndError ==
    (prog = "uploadFile" /\ ~sinkFailed) =>
        \A i \in 1..Len(events) :
            events[i].status = "failed" =>
                /\ events[i].error # "none"
                /\ events[i].step # "none"
                /\ pc \in { "finally", "done" }

OtpPositions == { "otp_detect", "otp_wait", "otp_submit", "otp_result" }

\* C12: once the portal page reports 'Credenciales incorrectas' after the
\* login form was submitted, the OTP flow is not entered, no OTP is waited
\* for, and login returns failure with the credential-rejected error.
C12_CredentialRejectionSkipsOTPFlow ==
    (page = "credRejected" /\ pc # "login_cred") =>
        /\ pc \notin OtpPositions
        /\ otpWaits = 0
        /\ loginResult.defined =>
              /\ ~loginResult.success
              /\ loginResult.error = "Credenciales incorrectas: Credenciales incorrectas"

\* C13: when the download of the input file fails, no browser work has been
\* performed in the run: no browser was launched, no probe was run and no
\* login was attempted.
C13_MissingUploadFailsBeforeBrowserWork ==
    error = "Timeout esperando archivo detokenizado" =>
        /\ open = { }
        /\ probes = 0
        /\ ~context.defined
        /\ ~loginResult.defined
        /\ ~Reached("CredentialsSubmitted")

C16_EngineFailureAbsorbed ==
    ( /\ prog = "hybrid" /\ pc \in { "catch", "done" }
      /\ attempts # << >> /\ AllAttemptsFailed )
    => Len(attempts) = Len(HybridEngineOrder)

\* C18: no engine step that spawned a Chrome subprocess is left waiting for
\* ever: the adapter settles even when the subprocess never exits.
C18_ChromeAdaptersSettle == pc # "blocked"

\* C17: when a run has ended, every browser, browser context, page and Chrome
\* subprocess it created has been closed or killed, and the probe context
\* does not outlive the probe.
C17_NoResourceLeftOpen ==
    prog \notin Harnesses =>
        /\ pc = "done" => open = { }
        /\ "contextDirect" \notin open

\* ceil(timeoutMs / checkInterval)
MaxPolls(timeout) == (timeout + CheckInterval - 1) \div CheckInterval

\* C19: waitForOTPFromWebSocket settles after at most ceil(timeoutMs/1000)
\* polls whatever the hand-off file shows: it never polls more often, it has
\* settled (resolved with an OTP or rejected with the timeout) once that many
\* polls were made, and it rejects only then; waitForOTPFromConsole settles
\* no later than timeoutMs.
C19_OTPWaitIsBounded ==
    /\ prog = "otpWebSocket" =>
          /\ polls <= MaxPolls(timeoutMs)
          /\ polls = MaxPolls(timeoutMs) => (otp \in { "resolved", "rejected" } /\ pc = "done")
          /\ otp = "rejected" => polls = MaxPolls(timeoutMs)
          /\ pc = "done" <=> otp \in { "resolved", "rejected" }
    /\ prog = "otpConsole" =>
          /\ pc = "done" <=> otp \in { "resolved", "rejected" }
          /\ elapsedTime <= timeoutMs

\* The file never held a valid OTP and the wait was rejected at its last
\* allowed poll, after more than one poll.
C19_Witness ==
    /\ prog = "otpWebSocket" /\ pc = "done" /\ otp = "rejected"
    /\ polls > 1 /\ polls = MaxPolls(timeoutMs)

\* Errors handleOTPFlow throws when no OTP was obtained.
OtpObtainErrors == { "OTP no proporcionado o timeout alcanzado", "OTP no proporcionado" }

\* C20: when the wait for the OTP timed out or returned an empty OTP, nothing
\* is typed into or submitted through the OTP field, login returns failure
\* with the corresponding error, no upload step executes, there is no second
\* wait, and the run ends with a 'failed' event for the step 'login' (the
\* event being the one the metadata sink accepted).
C20_OTPObtainFailureIsSingleShot ==
    (prog \in Drivers /\ otp \in { "rejected", "empty" }) =>
        /\ otpSubmits = 0
        /\ ~Reached("OTPSubmitted")
        /\ otpWaits = 1
        /\ pc \notin { "otp_wait", "otp_submit", "otp_result" }
        /\ \A i \in 1..Len(steps) : steps[i] \notin UploadSteps
        /\ pc \notin UploadPositions
        /\ loginResult.defined =>
              /\ ~loginResult.success
              /\ loginResult.error =
                    IF otp = "rejected" THEN "OTP no proporcionado o timeout alcanzado"
                                        ELSE "OTP no proporcionado"
        /\ ~HasStatus("completed")
        /\ (pc = "done" /\ ~sinkFailed) =>
              /\ Len(events) = 2
              /\ events[2].status = "failed"
              /\ events[2].error \in OtpObtainErrors
              /\ events[2].error = loginResult.error
              /\ events[2].step = "login"

\* The run ended after an empty OTP was returned: login failed, nothing was
\* submitted, and the failure was recorded.
C20_Witness ==
    /\ prog \in Drivers /\ pc = "done" /\ otp = "empty"
    /\ otpWaits = 1 /\ otpSubmits = 0 /\ ~sinkFailed
    /\ loginResult.defined /\ loginResult.error = "OTP no proporcionado"
    /\ Len(events) = 2 /\ events[2].status = "failed"

ProbeTimedOut == probe.threw /\ probe.message = "page.goto: Timeout 15000ms exceeded."
ProbeDnsFailed == probe.threw /\ probe.message = "net::ERR_NAME_NOT_RESOLVED"

\* C21: a probe that timed out and a probe that failed on DNS are told apart
\* and decided differently: after a timeout the connectivity result asks for
\* the proxy, after a DNS failure the run fails fast, i.e. no session context
\* is built and no login is attempted.
C21_TimeoutTriesProxyDnsFailsFast ==
    (prog = "uploadFile" /\ connectivityResult.defined) =>
        /\ ProbeTimedOut => connectivityResult.useProxy
        /\ ProbeDnsFailed =>
              /\ ~context.defined
              /\ ~Reached("SessionBuilt")
              /\ ~Reached("CredentialsSubmitted")

\* C22: when neither Chrome test of runDualChromeTest succeeded, the result it
\* returns is one of the attempts made, no attempt has a larger screenshot
\* than it, and it is handed on as not successful (success false, no working
\* method).
C22_LastResortIsLargestAndNotSuccess ==
    (prog = "dualChrome" /\ chainResult.defined /\ AllAttemptsFailed) =>
        /\ ~chainResult.success
        /\ workingMethod = "none"
        /\ \E i \in 1..Len(attempts) :
              /\ attempts[i].engine = chainResult.method
              /\ attempts[i].size = chainResult.screenshotSize
        /\ \A i \in 1..Len(attempts) : attempts[i].size <= chainResult.screenshotSize

\* Both tests failed and the first one, with the larger screenshot, was selected.
C22_Witness ==
    /\ prog = "dualChrome" /\ chainResult.defined /\ AllAttemptsFailed
    /\ Len(attempts) = 2 /\ attempts[1].size > attempts[2].size /\ attempts[2].size > 0
    /\ chainResult.method = "chrome-simple" /\ ~chainResult.success

\* C23: the run-status events form an append-only log: every event the
\* metadata sink accepted for the run is still present in the store.
C23_EventsAreAppendOnly ==
    \A i \in 1..Len(events) : \E j \in 1..Len(store) : store[j] = events[i]

\* C24: two runs executing at the same time share no mutable state: the OTP
\* a run obtains is the one deposited for that run, and the screenshot on
\* which a run's engine attempt is judged successful was written by that run.
C24_ConcurrentRunsShareNothing ==
    \A r \in RunIds :
        /\ runs[r].otp \in { "none", r }
        /\ runs[r].success => runs[r].evidence = r

\* Position of the workflow milestones in the order of the state machine.
StepRank(step) ==
    CASE step = "ConnectivityChecked"  -> 1
      [] step = "SessionBuilt"         -> 2
      [] step = "CredentialsSubmitted" -> 3
      [] step = "OTPVerified"          -> 4
      [] step = "FileSelected"         -> 5
      [] step = "FormSubmitted"        -> 6
      [] OTHER                         -> 0

\* C25: within one run the milestones are reached in the order of the state
\* machine, and a run that recorded 'completed' has submitted the
\* credentials, then verified the login, then selected a file, then
\* submitted the form.
C25_CompletedOnlyAfterStepsInOrder ==
    prog \in Drivers \cup { "hybrid" } =>
        /\ \A i, j \in 1..Len(steps) :
              (i < j /\ StepRank(steps[i]) > 0 /\ StepRank(steps[j]) > 0)
                  => StepRank(steps[i]) < StepRank(steps[j])
        /\ HasStatus("completed") =>
              \E a, b, c, d \in 1..Len(steps) :
                 /\ a < b /\ b < c /\ c < d
                 /\ steps[a] = "CredentialsSubmitted"
                 /\ steps[b] = "LoginVerified"
                 /\ steps[c] = "FileSelected"
                 /\ steps[d] = "FormSubmitted"

\* C26: retryWithBackoff with maxRetries >= 1 invokes fn one call after the
\* other until the first success or until maxRetries invocations failed: it
\* returns at the first success and invokes fn no more, it throws only after
\* exactly maxRetries failures and then throws the error of the last
\* invocation, and the sleep after failed attempt i (0-based) is
\* baseDelay * 2^i.
C26_RetryWithBackoff ==
    prog = "retryWithBackoff" =>
        /\ retry.calls <= retry.maxRetries
        /\ retry.outcome = "pending" =>
              /\ retry.calls = Len(retry.errors)
              /\ retry.calls < retry.maxRetries
              /\ Len(retry.delays) = Len(retry.errors)
              /\ pc # "done"
        /\ retry.outcome = "returned" =>
              /\ retry.calls = Len(retry.errors) + 1
              /\ Len(retry.delays) = Len(retry.errors)
              /\ pc = "done"
        /\ retry.outcome = "threw" =>
              /\ retry.calls = retry.maxRetries
              /\ Len(retry.errors) = retry.maxRetries
              /\ retry.thrown = retry.errors[retry.maxRetries]
              /\ Len(retry.delays) = retry.maxRetries - 1
              /\ pc = "done"
        /\ \A k \in 1..Len(retry.delays) :
              retry.delays[k] = retry.baseDelay * 2 ^ (k - 1)

\* Every invocation failed, with different errors, and the last one was thrown
\* after two sleeps.
C26_Witness ==
    /\ prog = "retryWithBackoff" /\ retry.outcome = "threw"
    /\ Len(retry.errors) >= 3 /\ Len(retry.delays) >= 2
    /\ retry.errors[1] # retry.thrown
    /\ retry.delays[2] = 2 * retry.baseDelay

\* C27: waitForDetokenizedFile terminates whatever S3 answers: every pass
\* through the loop either returns a key or adds one to the attempt counter,
\* so there are never more than maxAttempts passes, and the timeout error is
\* thrown after exactly maxAttempts unsuccessful passes and not earlier.
C27_WaitForDetokenizedFileTerminates ==
    prog = "waitForDetokenizedFile" =>
        /\ detok.attempts <= detok.maxAttempts
        /\ detok.iterations <= detok.maxAttempts
        /\ detok.iterations = detok.attempts + (IF detok.outcome = "returned" THEN 1 ELSE 0)
        /\ detok.outcome = "returned" => (detok.key # "none" /\ pc = "done")
        /\ detok.outcome = "timeout" =>
              /\ detok.attempts = detok.maxAttempts
              /\ detok.iterations = detok.maxAttempts
              /\ pc = "done"
        /\ pc = "done" <=> detok.outcome # "pending"

\* The timeout error was thrown after a failed listing, an unsuitable listing
\* and more: maxAttempts passes, none of which returned.
C27_Witness ==
    /\ prog = "waitForDetokenizedFile" /\ detok.outcome = "timeout"
    /\ detok.maxAttempts >= 3 /\ detok.iterations = detok.maxAttempts

\* C28: a valid OTP the command center wrote to the hand-off file while the
\* driver was polling is not lost: once the write is finished the OTP has
\* been delivered to the driver or is still in the file for the next poll;
\* the poller never removes the file while its write is in progress.
C28_WrittenOTPIsNeverLost ==
    prog = "otpHandoff" =>
        /\ writer # "unlinked"
        /\ writer = "closed" =>
              \/ otp = "resolved"
              \/ tmp[OtpFilePath].exists /\ tmp[OtpFilePath].size = OtpLength
              \/ pc = "unlink" /\ readBuf = OtpLength

\* Engines that run as a Chrome subprocess and are judged by the screenshot
\* file at a fixed path.
SubprocessEngines == { "chrome-direct", "chrome-simple", "chrome-stealth", "stealth-chrome" }

\* C29: a subprocess engine attempt is reported successful only on a
\* screenshot written by the subprocess of that same attempt: when the
\* subprocess wrote none, the attempt is a failure even if a screenshot of an
\* earlier run is at the fixed path.
C29_SuccessOnlyOnOwnEvidence ==
    \A i \in 1..Len(attempts) :
        (attempts[i].engine \in SubprocessEngines /\ attempts[i].success)
            => attempts[i].evidence = "current"

====
